---- MODULE Spec2Model ----
(***************************************************************************)
(* A model of LIB_USGSDataRetrieval.py: the two URL builders, the two      *)
(* fetch operations (downloadUSGS, downloadUSGSWQ), the water-quality      *)
(* index construction and the parameter column locator findUSGSCode.       *)
(*                                                                         *)
(* Python str and bytes values are modelled as sequences of one-character  *)
(* strings, so that '+' is \o, 'x in s' is a substring search and          *)
(* s.endswith(x) is a comparison of the tail.                              *)
(***************************************************************************)
EXTENDS Integers, Sequences, FiniteSets, TLC

VARIABLES
    \* the URL builders: which builder was called, its arguments, its result
    urlPc, urlArgs, Url,
    \* findUSGSCode: the Record Set, the tag and the outcome of the call
    findPc, Df, paramType, findOut,
    \* the water-quality index construction (lines 146-151)
    wqPc, wqBody, wqDf,
    \* the fetch operations, per call
    pc, args, data, datahead, outFile, fpos, df, ret, err, log,
    \* the file system shared by all calls
    fs

urlVars == <<urlPc, urlArgs, Url>>
findVars == <<findPc, Df, paramType, findOut>>
wqVars == <<wqPc, wqBody, wqDf>>
fetchVars == <<pc, args, data, datahead, outFile, fpos, df, ret, err, log, fs>>
vars == <<urlVars, findVars, wqVars, fetchVars>>

\* Python's None where a string is expected, and the empty str / bytes / list.
None == "None"
Empty == <<>>

---------------------------------------------------------------------------
(* Strings                                                                 *)

\* Longest argument string the URL specification draws.
MaxArgLen == 1

\* SeqsUpTo(S, n): every sequence over S of length at most n.
SeqsUpTo(S, n) == UNION {[1..k -> S] : k \in 0..n}

\* Python's 'sub in s' for str and bytes: sub occurs as a contiguous slice.
Contains(sub, s) ==
    \E i \in 1..(Len(s) - Len(sub) + 1) : SubSeq(s, i, i + Len(sub) - 1) = sub

\* Python's s.endswith(suffix).
EndsWith(s, suffix) ==
    /\ Len(suffix) <= Len(s)
    /\ SubSeq(s, Len(s) - Len(suffix) + 1, Len(s)) = suffix

\* The positions at which sub occurs in s.
Occurrences(sub, s) ==
    {i \in 1..(Len(s) - Len(sub) + 1) : SubSeq(s, i, i + Len(sub) - 1) = sub}

---------------------------------------------------------------------------
(* URL builders (lines 41-69, 97-121)                                      *)

addSlash(text) == text \o <<"/">>

\* 'https://waterservices.usgs.gov/nwis/'
TsBase ==
    <<"h","t","t","p","s",":","/","/","w","a","t","e","r","s","e","r","v","i","c","e","s",
      ".","u","s","g","s",".","g","o","v","/","n","w","i","s","/">>

\* 'https://nwis.waterdata.usgs.gov/nwis/'
WqBase ==
    <<"h","t","t","p","s",":","/","/","n","w","i","s",".","w","a","t","e","r","d","a","t","a",
      ".","u","s","g","s",".","g","o","v","/","n","w","i","s","/">>

\* outformat='rdb', siteStatus='all'
outformat == <<"r","d","b">>
siteStatus == <<"a","l","l">>

\* A builder that emits sites before format: the order of two keys swapped.
genUSGSUrlSwapped(siteNo, dtype, startDT, endDT) ==
    LET Url1 == TsBase
        Url2 == Url1 \o addSlash(dtype)
    IN  Url2 \o <<"?","s","i","t","e","s","=">> \o siteNo
             \o <<"&","f","o","r","m","a","t","=">> \o outformat
             \o <<"&","s","t","a","r","t","D","T","=">> \o startDT
             \o <<"&","e","n","d","D","T","=">> \o endDT
             \o <<"&","s","i","t","e","S","t","a","t","u","s","=">> \o siteStatus

genUSGSUrl(siteNo, dtype, startDT, endDT) ==
    LET Url1 == TsBase
        Url2 == Url1 \o addSlash(dtype)
    IN  Url2 \o <<"?","f","o","r","m","a","t","=">> \o outformat
             \o <<"&","s","i","t","e","s","=">> \o siteNo
             \o <<"&","s","t","a","r","t","D","T","=">> \o startDT
             \o <<"&","e","n","d","D","T","=">> \o endDT
             \o <<"&","s","i","t","e","S","t","a","t","u","s","=">> \o siteStatus

genUSGS_WQData_Url(siteNo, dtype, paramgroup) ==
    LET Url1 == WqBase
        Url2 == Url1 \o addSlash(dtype)
    IN  Url2 \o <<"?","s","i","t","e","_","n","o","=">> \o siteNo
             \o <<"&","a","g","e","n","c","y","_","c","d","=","U","S","G","S",
                  "&","p","a","r","a","m","_","g","r","o","u","p","=">> \o paramgroup
             \o <<"&","f","o","r","m","a","t","=">> \o outformat

\* The characters the argument strings of the URL specification are made of.
UrlAlphabet == {"1", "&", "=", "?"}
UrlStrings == SeqsUpTo(UrlAlphabet, MaxArgLen)

\* dtype = iv, dv (time series) and qwdata (water quality), lines 46, 198, 211.
TsDTypes == {<<"i","v">>, <<"d","v">>}
WqDTypes == {<<"q","w","d","a","t","a">>}

\* The arguments of a builder call; a field the builder does not take is Empty.
UrlArgs(kind, siteNo, dtype, startDT, endDT, paramgroup) ==
    [kind |-> kind, siteNo |-> siteNo, dtype |-> dtype, startDT |-> startDT,
     endDT |-> endDT, paramgroup |-> paramgroup]

UrlIdle ==
    /\ urlPc = "idle"
    /\ urlArgs = UrlArgs("none", Empty, Empty, Empty, Empty, Empty)
    /\ Url = Empty

UrlInit ==
    /\ urlPc = "args"
    /\ Url = Empty
    /\ \/ urlArgs \in [kind : {"ts"}, siteNo : UrlStrings, dtype : TsDTypes,
                       startDT : UrlStrings, endDT : UrlStrings, paramgroup : {Empty}]
       \/ urlArgs \in [kind : {"wq"}, siteNo : UrlStrings, dtype : WqDTypes,
                       startDT : {Empty}, endDT : {Empty}, paramgroup : UrlStrings]

CallGenUSGSUrl ==
    /\ urlPc = "args"
    /\ urlArgs.kind = "ts"
    /\ Url' = genUSGSUrl(urlArgs.siteNo, urlArgs.dtype, urlArgs.startDT, urlArgs.endDT)
    /\ urlPc' = "returned"
    /\ UNCHANGED <<urlArgs, findVars, wqVars, fetchVars>>

CallGenUSGS_WQData_Url ==
    /\ urlPc = "args"
    /\ urlArgs.kind = "wq"
    /\ Url' = genUSGS_WQData_Url(urlArgs.siteNo, urlArgs.dtype, urlArgs.paramgroup)
    /\ urlPc' = "returned"
    /\ UNCHANGED <<urlArgs, findVars, wqVars, fetchVars>>

---------------------------------------------------------------------------
(* findUSGSCode (lines 154-181)                                            *)

\* Most columns a Record Set of the locator specification has.
MaxCols == 3

SiteNoLabel == <<"s","i","t","e","_","n","o">>
Fmt15s == <<"1","5","s">>
Fmt14n == <<"1","4","n">>
Fmt10s == <<"1","0","s">>
CdSuffix == <<"_","c","d">>
DailyMean == <<"0","0","0","0","3">>

\* The (outer label, format code) pairs the Record Sets are made of: the
\* site column, instantaneous and daily series of the five parameters, a
\* qualifier column, and a second instantaneous discharge series.
ColumnPool ==
    { <<SiteNoLabel, Fmt15s>>,
      <<<<"1","_","0","0","0","6","0">>, Fmt14n>>,
      <<<<"1","_","0","0","0","6","0","_","c","d">>, Fmt10s>>,
      <<<<"2","_","0","0","0","6","0","_","0","0","0","0","3">>, Fmt14n>>,
      <<<<"3","_","0","0","0","6","5","_","0","0","0","0","3">>, Fmt14n>>,
      <<<<"4","_","0","0","0","6","5","_","0","0","0","0","1">>, Fmt14n>>,
      <<<<"5","_","7","2","2","9","4">>, Fmt14n>>,
      <<<<"6","_","6","3","6","8","0">>, Fmt14n>>,
      <<<<"7","_","0","0","0","1","0","_","0","0","0","0","3">>, Fmt14n>>,
      <<<<"8","_","0","0","0","6","0">>, Fmt14n>> }

\* The tags the code accepts, the tags the specification lists, and one
\* string that is neither.
CodeTags == {"Q", "Stage", "Umean", "Turbidity", "Tempmean"}
DocTags == {"Discharge", "Stage", "MeanVelocity", "Turbidity", "MeanTemperature"}
Tags == CodeTags \cup DocTags \cup {"Depth"}

\* The if/elif chain with two branches' codes exchanged.
ParamCodeOfSwapped(tag) ==
    CASE tag = "Q" -> <<"0","0","0","6","5">>
      [] tag = "Stage" -> <<"0","0","0","6","0">>
      [] tag = "Umean" -> <<"7","2","2","9","4">>
      [] tag = "Turbidity" -> <<"6","3","6","8","0">>
      [] tag = "Tempmean" -> <<"0","0","0","1","0">>
      [] OTHER -> Empty

\* Lines 158-171: the tag's parameter code; Empty stands for the else branch,
\* which returns before paramCode is bound.
ParamCodeOf(tag) ==
    CASE tag = "Q" -> <<"0","0","0","6","0">>
      [] tag = "Stage" -> <<"0","0","0","6","5">>
      [] tag = "Umean" -> <<"7","2","2","9","4">>
      [] tag = "Turbidity" -> <<"6","3","6","8","0">>
      [] tag = "Tempmean" -> <<"0","0","0","1","0">>
      [] OTHER -> Empty

\* Line 173: paramCodes = [item[0] for item in Df.columns]
OuterLabels(D) == [i \in 1..Len(D.columns) |-> D.columns[i][1]]

\* Line 174: the labels that contain the code and are no qualifier column.
CodeMatches(D, paramCode) ==
    LET Keep(item) == Contains(paramCode, item) /\ ~EndsWith(item, CdSuffix)
    IN  SelectSeq(OuterLabels(D), Keep)

\* Line 179: the labels that contain '00003' and are no qualifier column.
DailyMeanMatches(D) ==
    LET Keep(item) == Contains(DailyMean, item) /\ ~EndsWith(item, CdSuffix)
    IN  SelectSeq(OuterLabels(D), Keep)

\* Line 176: Df['site_no']['15s'].iloc[0], or the exception it raises.
SiteNoLookup(D) ==
    IF ~\E i \in 1..Len(D.columns) : D.columns[i][1] = SiteNoLabel
        THEN [raised |-> "KeyError", value |-> Empty]
    ELSE IF ~\E i \in 1..Len(D.columns) : D.columns[i] = <<SiteNoLabel, Fmt15s>>
        THEN [raised |-> "KeyError", value |-> Empty]
    ELSE IF D.site_no = <<>>
        THEN [raised |-> "IndexError", value |-> Empty]
    ELSE [raised |-> None, value |-> D.site_no[1]]

\* The outcome of a call: the diagnostic it printed ("" for none) with the
\* site identifier in it, the exception it raised (None for none), and the
\* value it returned: returned = "None" for a bare return, "label" with the
\* label in value for 'return result[0]', "nothing" when it raised.
FindOutcome(printed, site, raised, returned, value) ==
    [printed |-> printed, site |-> site, raised |-> raised,
     returned |-> returned, value |-> value]

InvalidTagMessage == "Error in findUSGSCode!!! Parameter code not found!"
NotInDatasetMessage == "Error in findUSGSCode!!! Parameter code not in the dataset!!!"

findUSGSCode(D, tag) ==
    LET paramCode == ParamCodeOf(tag)
        result == CodeMatches(D, paramCode)
        result2 == IF Len(result) > 1 THEN DailyMeanMatches(D) ELSE result
        site == SiteNoLookup(D)
    IN  IF paramCode = Empty
            THEN FindOutcome(InvalidTagMessage, Empty, None, "None", Empty)
        ELSE IF Len(result) = 0
            THEN IF site.raised # None
                    THEN FindOutcome("", Empty, site.raised, "nothing", Empty)
                    ELSE FindOutcome(NotInDatasetMessage, site.value, None, "None", Empty)
        ELSE IF result2 = <<>>
            THEN FindOutcome("", Empty, "IndexError", "nothing", Empty)
        ELSE FindOutcome("", Empty, None, "label", result2[1])

SiteIds == {<<"0","7","3","8","1","5","9","0">>}

NoDf == [columns |-> <<>>, site_no |-> <<>>]
NoOutcome == FindOutcome("", Empty, None, "nothing", Empty)

FindIdle ==
    /\ findPc = "idle"
    /\ Df = NoDf
    /\ paramType = None
    /\ findOut = NoOutcome

\* A Record Set read from a file has no two columns of one name.
FindInit ==
    /\ findPc = "args"
    /\ Df \in [columns : {cols \in SeqsUpTo(ColumnPool, MaxCols) :
                             \A i, j \in 1..Len(cols) : cols[i] = cols[j] => i = j},
               site_no : {<<>>} \cup {<<s>> : s \in SiteIds}]
    /\ paramType \in Tags
    /\ findOut = NoOutcome

CallFindUSGSCode ==
    /\ findPc = "args"
    /\ findOut' = findUSGSCode(Df, paramType)
    /\ findPc' = "returned"
    /\ UNCHANGED <<Df, paramType, urlVars, wqVars, fetchVars>>

---------------------------------------------------------------------------
(* pd.read_csv(..., sep='\t', comment='#', header=[0,1]) (lines 91, 146)   *)
(* A line is the sequence of its characters without the line terminator.   *)

Marker == "#"
Tab == "\t"

\* The index of the first occurrence of ch in s, 0 when there is none.
RECURSIVE IndexOf(_, _)
IndexOf(ch, s) ==
    IF s = <<>> THEN 0
    ELSE IF Head(s) = ch THEN 1
    ELSE LET r == IndexOf(ch, Tail(s)) IN IF r = 0 THEN 0 ELSE r + 1

\* comment='#': the rest of a line from the first marker on is not parsed.
StripComment(line) ==
    LET i == IndexOf(Marker, line)
    IN  IF i = 0 THEN line ELSE SubSeq(line, 1, i - 1)

\* The lines the parser sees: comments cut off, and the lines that are empty
\* then (wholly commented lines, blank lines) skipped.
ParsedLines(lines) ==
    LET stripped == [i \in 1..Len(lines) |-> StripComment(lines[i])]
        Keep(l) == l # <<>>
    IN  SelectSeq(stripped, Keep)

\* str.split on one separator character.
RECURSIVE Split(_, _)
Split(s, sep) ==
    LET i == IndexOf(sep, s)
    IN  IF i = 0 THEN <<s>>
        ELSE <<SubSeq(s, 1, i - 1)>> \o Split(SubSeq(s, i + 1, Len(s)), sep)

\* A cell of a column: na is pandas' NaN (an empty field), s the field's text.
Cell(text) == [na |-> text = <<>>, s |-> text]
NaN == [na |-> TRUE, s |-> <<>>]

\* The parsed frame: ok is FALSE when the two header rows are not there;
\* columns are the (label, format code) pairs, rows the data rows' cells.
ReadCsv(lines) ==
    LET body == ParsedLines(lines)
    IN  IF Len(body) < 2
            THEN [ok |-> FALSE, columns |-> <<>>, rows |-> <<>>]
        ELSE LET labels == Split(body[1], Tab)
                 codes == Split(body[2], Tab)
                 Code(j) == IF j <= Len(codes) THEN codes[j] ELSE <<>>
                 Fields(i) == Split(body[i + 2], Tab)
             IN  [ok |-> TRUE,
                  columns |-> [j \in 1..Len(labels) |-> <<labels[j], Code(j)>>],
                  rows |-> [i \in 1..(Len(body) - 2) |->
                              [j \in 1..Len(Fields(i)) |-> Cell(Fields(i)[j])]]]

\* The position of column (label, code) in the frame, 0 when it has none.
ColumnIndex(frame, label, code) ==
    IF \E j \in 1..Len(frame.columns) : frame.columns[j] = <<label, code>>
        THEN CHOOSE j \in 1..Len(frame.columns) :
                 /\ frame.columns[j] = <<label, code>>
                 /\ \A k \in 1..(j - 1) : frame.columns[k] # <<label, code>>
        ELSE 0

\* frame[label][code]: the column's cells, a missing trailing field being NaN.
Column(frame, label, code) ==
    LET j == ColumnIndex(frame, label, code)
    IN  [i \in 1..Len(frame.rows) |->
            IF j <= Len(frame.rows[i]) THEN frame.rows[i][j] ELSE NaN]

---------------------------------------------------------------------------
(* Water-quality index construction (lines 146-151)                        *)

\* Most data rows a water-quality body has.
MaxRows == 3

SampleDt == <<"s","a","m","p","l","e","_","d","t">>
SampleTm == <<"s","a","m","p","l","e","_","t","m">>
Fmt10d == <<"1","0","d">>
Fmt5d == <<"5","d">>
Noon == <<"1","2",":","0","0">>
Seconds == <<":","0","0">>

\* The sample_dt and sample_tm fields a data row may carry; the empty field
\* is a blank.
DateFields ==
    { <<>>,
      <<"2","0","2","1","-","0","3","-","0","4">>,
      <<"2","0","2","2","-","1","1","-","3","0">> }
TimeFields ==
    { <<>>,
      <<"0","8",":","3","0">>,
      <<"1","2",":","0","0">>,
      <<"2","3",":","0","5">> }

WqHeader == << SampleDt \o <<Tab>> \o SampleTm, Fmt10d \o <<Tab>> \o Fmt5d >>
WqLine(d, t) == d \o <<Tab>> \o t

DigitValue(ch) ==
    CASE ch = "0" -> 0 [] ch = "1" -> 1 [] ch = "2" -> 2 [] ch = "3" -> 3
      [] ch = "4" -> 4 [] ch = "5" -> 5 [] ch = "6" -> 6 [] ch = "7" -> 7
      [] ch = "8" -> 8 [] ch = "9" -> 9

\* int() of a string of decimal digits.
RECURSIVE ParseInt(_)
ParseInt(s) ==
    IF s = <<>> THEN 0
    ELSE 10 * ParseInt(SubSeq(s, 1, Len(s) - 1)) + DigitValue(s[Len(s)])

\* A timestamp; nat is pandas' NaT.
Timestamp(y, mo, d, h, mi, sec) ==
    [nat |-> FALSE, year |-> y, month |-> mo, day |-> d,
     hour |-> h, minute |-> mi, second |-> sec]
NaT == [nat |-> TRUE, year |-> 0, month |-> 0, day |-> 0,
        hour |-> 0, minute |-> 0, second |-> 0]

IsDigits(s) ==
    /\ s # <<>>
    /\ \A i \in 1..Len(s) : s[i] \in {"0","1","2","3","4","5","6","7","8","9"}

\* The texts pd.to_datetime is given here and parses: 'YYYY-MM-DD HH:MM' and
\* 'YYYY-MM-DD HH:MM:SS'.  A label or a format code in a cell is not one of them.
IsDatetimeText(s) ==
    LET parts == Split(s, " ")
    IN  /\ Len(parts) = 2
        /\ LET ymd == Split(parts[1], "-")
               hms == Split(parts[2], ":")
           IN  /\ Len(ymd) = 3
               /\ Len(hms) \in {2, 3}
               /\ \A k \in 1..3 : IsDigits(ymd[k])
               /\ \A k \in 1..Len(hms) : IsDigits(hms[k])

\* pd.to_datetime of one cell; NaN gives NaT, absent seconds are zero.
to_datetime(cell) ==
    IF cell.na THEN NaT
    ELSE LET parts == Split(cell.s, " ")
             ymd == Split(parts[1], "-")
             hms == Split(parts[2], ":")
         IN  Timestamp(ParseInt(ymd[1]), ParseInt(ymd[2]), ParseInt(ymd[3]),
                       ParseInt(hms[1]), ParseInt(hms[2]),
                       IF Len(hms) = 3 THEN ParseInt(hms[3]) ELSE 0)

\* Whether pd.to_datetime accepts every cell of the column.
Parses(col) == \A i \in 1..Len(col) : col[i].na \/ IsDatetimeText(col[i].s)

\* Series + str and Series + Series on object columns: NaN absorbs.
Concat(a, b) == IF a.na \/ b.na THEN NaN ELSE [na |-> FALSE, s |-> a.s \o b.s]
Str(text) == [na |-> FALSE, s |-> text]

\* The assignment without its mask: every row's time becomes '12:00'.
FillMissingTimeAll(col) == [i \in 1..Len(col) |-> Str(Noon)]

\* Line 148: df.loc[df['sample_tm']['5d'].isna(), ('sample_tm','5d')] = '12:00'
FillMissingTime(col) ==
    [i \in 1..Len(col) |-> IF col[i].na THEN Str(Noon) ELSE col[i]]

\* Line 149: df['sample_dt']['10d'] + ' ' + df['sample_tm']['5d'] + ':00'
DatetimeText(dt, tm) ==
    [i \in 1..Len(dt) |-> Concat(Concat(Concat(dt[i], Str(<<" ">>)), tm[i]), Str(Seconds))]

\* pd.to_datetime of a column (lines 92, 149).
DatetimeColumn(col) == [i \in 1..Len(col) |-> to_datetime(col[i])]

NoFrame == [sample_dt |-> <<>>, sample_tm |-> <<>>, datetime |-> <<>>, index |-> <<>>]

WqIdle ==
    /\ wqPc = "idle"
    /\ wqBody = <<>>
    /\ wqDf = NoFrame

\* The body the service returned: the two header rows and the data rows.
WqInit ==
    /\ wqPc = "body"
    /\ \E rows \in SeqsUpTo(DateFields \X TimeFields, MaxRows) :
           wqBody = WqHeader \o [i \in 1..Len(rows) |-> WqLine(rows[i][1], rows[i][2])]
    /\ wqDf = NoFrame

\* Line 146, and the two column selections of lines 148-149.
WqReadCsv ==
    /\ wqPc = "body"
    /\ LET frame == ReadCsv(wqBody)
       IN  /\ frame.ok
           /\ ColumnIndex(frame, SampleDt, Fmt10d) # 0
           /\ ColumnIndex(frame, SampleTm, Fmt5d) # 0
           /\ wqDf' = [NoFrame EXCEPT !.sample_dt = Column(frame, SampleDt, Fmt10d),
                                      !.sample_tm = Column(frame, SampleTm, Fmt5d)]
    /\ wqPc' = "parsed"
    /\ UNCHANGED <<wqBody, urlVars, findVars, fetchVars>>

\* Line 148.
WqFillTime ==
    /\ wqPc = "parsed"
    /\ wqDf' = [wqDf EXCEPT !.sample_tm = FillMissingTime(wqDf.sample_tm)]
    /\ wqPc' = "filled"
    /\ UNCHANGED <<wqBody, urlVars, findVars, fetchVars>>

\* Line 149.
WqToDatetime ==
    /\ wqPc = "filled"
    /\ Parses(DatetimeText(wqDf.sample_dt, wqDf.sample_tm))
    /\ wqDf' = [wqDf EXCEPT !.datetime =
                    DatetimeColumn(DatetimeText(wqDf.sample_dt, wqDf.sample_tm))]
    /\ wqPc' = "stamped"
    /\ UNCHANGED <<wqBody, urlVars, findVars, fetchVars>>

\* Lines 150-151: df.set_index(['datetime']) and the return.
WqSetIndex ==
    /\ wqPc = "stamped"
    /\ wqDf' = [wqDf EXCEPT !.index = wqDf.datetime]
    /\ wqPc' = "returned"
    /\ UNCHANGED <<wqBody, urlVars, findVars, fetchVars>>

---------------------------------------------------------------------------
(* downloadUSGS (lines 72-94) and downloadUSGSWQ (lines 126-151)           *)
(* The printHeader output (lines 74-75, 85-86, 129-130, 140-141) goes to   *)
(* the console and changes none of the state below; it is left out.        *)

\* Most lines a response of the service has.
MaxLines == 3

Calls == {1, 2}

Site1 == <<"0","7","3","8","1","5","9","0">>
Site2 == <<"1","5","5","6","5","4","4","7">>
DataDownload == <<"D","a","t","a","D","o","w","n","l","o","a","d">>
DatetimeLabel == <<"d","a","t","e","t","i","m","e">>
Fmt20d == <<"2","0","d">>

\* The arguments of a fetch call.  saveheaderparth is <<>> for None and
\* <<path>> for a directory.
FetchArgs(kind, siteNo, dtype, startDT, endDT, paramgroup, saveheaderparth) ==
    [kind |-> kind, siteNo |-> siteNo, dtype |-> dtype, startDT |-> startDT,
     endDT |-> endDT, paramgroup |-> paramgroup, saveheaderparth |-> saveheaderparth]

NoArgs == FetchArgs("none", Empty, Empty, Empty, Empty, Empty, <<>>)

\* The __main__ examples (lines 195-215), the second without a directory.
TsExample ==
    FetchArgs("ts", Site1, <<"i","v">>, <<"2","0","2","1","-","0","1","-","0","1">>,
              <<"2","0","2","2","-","1","2","-","3","1">>, Empty, <<DataDownload>>)
WqExample ==
    FetchArgs("wq", Site2, <<"q","w","d","a","t","a">>, Empty, Empty, <<"S","E","D">>, <<>>)

\* Two time-series calls for one site, data type and directory and two date
\* ranges, and a water-quality call into the same directory.
TsYear1 ==
    FetchArgs("ts", Site1, <<"i","v">>, <<"2","0","2","1","-","0","1","-","0","1">>,
              <<"2","0","2","1","-","1","2","-","3","1">>, Empty, <<DataDownload>>)
TsYear2 ==
    FetchArgs("ts", Site1, <<"i","v">>, <<"2","0","2","2","-","0","1","-","0","1">>,
              <<"2","0","2","2","-","1","2","-","3","1">>, Empty, <<DataDownload>>)
WqSameDir ==
    FetchArgs("wq", Site2, <<"q","w","d","a","t","a">>, Empty, Empty, <<"S","E","D">>,
              <<DataDownload>>)

SingleArgs == {TsExample, WqExample}
ParallelArgs == {TsYear1, TsYear2, WqSameDir}

\* Lines 73, 128.
BuiltUrl(a) ==
    IF a.kind = "ts" THEN genUSGSUrl(a.siteNo, a.dtype, a.startDT, a.endDT)
    ELSE genUSGS_WQData_Url(a.siteNo, a.dtype, a.paramgroup)

\* os.path.join of a directory and a file name.
PathJoin(dir, name) ==
    IF dir = <<>> THEN name
    ELSE IF EndsWith(dir, <<"/">>) THEN dir \o name
    ELSE dir \o <<"/">> \o name

\* Lines 78-81, 133-136: 'USGS'+siteNo+'_'+dtype+'_head.txt', in the directory
\* when one is given.
OutputHead(a) ==
    LET name == <<"U","S","G","S">> \o a.siteNo \o <<"_">> \o a.dtype
                    \o <<"_","h","e","a","d",".","t","x","t">>
    IN  IF a.saveheaderparth # <<>> THEN PathJoin(a.saveheaderparth[1], name) ELSE name

Paths == {OutputHead(a) : a \in SingleArgs \cup ParallelArgs}

\* A file: whether it exists, and its content as a sequence of lines.
Absent == [exists |-> FALSE, content |-> <<>>]
OldFile == [exists |-> TRUE, content |-> << <<"#","o","l","d">> >>]

\* The lines the time-series service answers with: a comment, the label row,
\* the format-code row, and a data row with the marker in a field.
TsLines ==
    { <<"#","a">>,
      DatetimeLabel,
      Fmt20d,
      <<"2","0","2","1","-","0","1","-","0","1"," ","0","0",":","1","5","#","P">> }

\* The same for the water-quality service; the data row's time field is the
\* marker and a remark.
WqLines ==
    { <<"#","a">>,
      WqHeader[1],
      WqHeader[2],
      WqLine(<<"2","0","2","1","-","0","3","-","0","4">>, <<"#","b">>) }

\* Every response of at most MaxLines lines, per service.
AnyResponse ==
    [kind \in {"ts", "wq"} |->
        IF kind = "ts" THEN SeqsUpTo(TsLines, MaxLines) ELSE SeqsUpTo(WqLines, MaxLines)]

\* A few responses, for the specification that runs two calls.
FewResponses ==
    [kind \in {"ts", "wq"} |->
        IF kind = "ts"
            THEN { << <<"#","a">> >>,
                   << <<"2","0","2","1","-","0","1","-","0","1"," ","0","0",":","1","5",
                        "#","P">>,
                      <<"#","a">> >>,
                   << DatetimeLabel, Fmt20d >> }
            ELSE { << <<"#","a">> >>, << WqHeader[1], WqHeader[2] >> }]

NoDfFrame == [columns |-> <<>>, rows |-> <<>>, index |-> <<>>]
NoRet == [returned |-> FALSE, datahead |-> <<>>, df |-> NoDfFrame]
NoLog == [requests |-> <<>>, response |-> <<>>, events |-> <<>>, before |-> Absent]

\* The log of a call: the URLs it requested, the response its last request was
\* answered with, the steps it took, and the header file as the call found it.
Record(l, step) == [l EXCEPT !.events = Append(l.events, step)]

FetchIdle ==
    /\ pc = [c \in Calls |-> "idle"]
    /\ args = [c \in Calls |-> NoArgs]
    /\ data = [c \in Calls |-> <<>>]
    /\ datahead = [c \in Calls |-> <<>>]
    /\ outFile = [c \in Calls |-> <<>>]
    /\ fpos = [c \in Calls |-> 0]
    /\ df = [c \in Calls |-> NoDfFrame]
    /\ ret = [c \in Calls |-> NoRet]
    /\ err = [c \in Calls |-> None]
    /\ log = [c \in Calls |-> NoLog]

\* Before any call the header files are all absent or all left by earlier runs.
FetchInit ==
    /\ FetchIdle
    /\ fs \in {[p \in Paths |-> Absent], [p \in Paths |-> OldFile]}

Raise(c, exception) ==
    /\ pc' = [pc EXCEPT ![c] = "raised"]
    /\ err' = [err EXCEPT ![c] = exception]

\* Lines 73-81, 128-136: the call is entered with arguments a.
Call(c, A) ==
    /\ pc[c] = "idle"
    /\ \E a \in A :
        /\ args' = [args EXCEPT ![c] = a]
        /\ outFile' = [outFile EXCEPT ![c] = OutputHead(a)]
        /\ log' = [log EXCEPT ![c] = [NoLog EXCEPT !.before = fs[OutputHead(a)]]]
    /\ datahead' = [datahead EXCEPT ![c] = <<>>]
    /\ pc' = [pc EXCEPT ![c] = "urlopen"]
    /\ UNCHANGED <<data, fpos, df, ret, err, fs, urlVars, findVars, wqVars>>

\* The request as sent: the log takes the URL and the step.
Requested(l, url, step) == Record([l EXCEPT !.requests = Append(l.requests, url)], step)

\* A urlopen that also creates and truncates the header file.
UrlOpenTruncating(c, R) ==
    /\ pc[c] = "urlopen"
    /\ \E r \in R[args[c].kind] :
        /\ data' = [data EXCEPT ![c] = r]
        /\ log' = [log EXCEPT ![c] =
                      [Requested(log[c], BuiltUrl(args[c]), "urlopen") EXCEPT !.response = r]]
    /\ fs' = [fs EXCEPT ![outFile[c]] = [exists |-> TRUE, content |-> <<>>]]
    /\ pc' = [pc EXCEPT ![c] = "iter"]
    /\ UNCHANGED <<args, datahead, outFile, fpos, df, ret, err, urlVars, findVars, wqVars>>

\* Lines 82, 137: urlopen(Url) answers with response r.
UrlOpen(c, R) ==
    /\ pc[c] = "urlopen"
    /\ \E r \in R[args[c].kind] :
        /\ data' = [data EXCEPT ![c] = r]
        /\ log' = [log EXCEPT ![c] =
                      [Requested(log[c], BuiltUrl(args[c]), "urlopen") EXCEPT !.response = r]]
    /\ pc' = [pc EXCEPT ![c] = "iter"]
    /\ UNCHANGED <<args, datahead, outFile, fpos, df, ret, err, fs, urlVars, findVars, wqVars>>

\* Lines 82, 137: urlopen(Url) raises (DNS, timeout, HTTP status).
UrlOpenFails(c) ==
    /\ pc[c] = "urlopen"
    /\ log' = [log EXCEPT ![c] = Requested(log[c], BuiltUrl(args[c]), "urlopen")]
    /\ Raise(c, "URLError")
    /\ UNCHANGED <<args, data, datahead, outFile, fpos, df, ret, fs, urlVars, findVars, wqVars>>

\* A loop that keeps the lines that begin with the marker.
KeptHeadStartsWith(head, line) ==
    IF line # <<>> /\ Head(line) = Marker THEN Append(head, line) ELSE head

\* Lines 84-87, 139-142: 'if b"#" in line: datahead.append(line)'.
KeptHead(head, line) ==
    IF Contains(<<Marker>>, line) THEN Append(head, line) ELSE head

\* Lines 83-87, 138-142: one turn of 'for line in data'.
NextLine(c) ==
    /\ pc[c] = "iter"
    /\ data[c] # <<>>
    /\ datahead' = [datahead EXCEPT ![c] = KeptHead(datahead[c], Head(data[c]))]
    /\ data' = [data EXCEPT ![c] = Tail(data[c])]
    /\ log' = [log EXCEPT ![c] = Record(log[c], "iter")]
    /\ UNCHANGED <<pc, args, outFile, fpos, df, ret, err, fs, urlVars, findVars, wqVars>>

\* Lines 83, 138: reading the stream raises.
ReadFails(c) ==
    /\ pc[c] = "iter"
    /\ log' = [log EXCEPT ![c] = Record(log[c], "iter")]
    /\ Raise(c, "URLError")
    /\ UNCHANGED <<args, data, datahead, outFile, fpos, df, ret, fs, urlVars, findVars, wqVars>>

\* Lines 88, 143: open(outputHead,'wb') after the loop has ended: the file is
\* created or truncated and the handle stands at its start.
OpenFile(c) ==
    /\ pc[c] = "iter"
    /\ data[c] = <<>>
    /\ fs' = [fs EXCEPT ![outFile[c]] = [exists |-> TRUE, content |-> <<>>]]
    /\ fpos' = [fpos EXCEPT ![c] = 0]
    /\ log' = [log EXCEPT ![c] = Record(log[c], "open")]
    /\ pc' = [pc EXCEPT ![c] = "write"]
    /\ UNCHANGED <<args, data, datahead, outFile, df, ret, err, urlVars, findVars, wqVars>>

\* Lines 88, 143: open raises (no such directory, no permission).
OpenFileFails(c) ==
    /\ pc[c] = "iter"
    /\ data[c] = <<>>
    /\ log' = [log EXCEPT ![c] = Record(log[c], "open")]
    /\ Raise(c, "OSError")
    /\ UNCHANGED <<args, data, datahead, outFile, fpos, df, ret, fs, urlVars, findVars, wqVars>>

\* The filler of a gap left when a handle writes past the end of its file.
Hole == <<"NUL">>

\* A write of one line through a handle that stands after pos lines.
WriteAt(content, pos, line) ==
    IF pos < Len(content) THEN [content EXCEPT ![pos + 1] = line]
    ELSE content \o [i \in 1..(pos - Len(content)) |-> Hole] \o <<line>>

\* Lines 89-90, 144-145: one turn of 'for line in datahead: f.write(line)'.
WriteLine(c) ==
    /\ pc[c] = "write"
    /\ fpos[c] < Len(datahead[c])
    /\ fs' = [fs EXCEPT ![outFile[c]] =
                 [exists |-> TRUE,
                  content |-> WriteAt(fs[outFile[c]].content, fpos[c],
                                      datahead[c][fpos[c] + 1])]]
    /\ fpos' = [fpos EXCEPT ![c] = fpos[c] + 1]
    /\ log' = [log EXCEPT ![c] = Record(log[c], "write")]
    /\ UNCHANGED <<pc, args, data, datahead, outFile, df, ret, err, urlVars, findVars, wqVars>>

\* Lines 88-90, 143-145: a write or the closing flush raises (disk full).
WriteFails(c) ==
    /\ pc[c] = "write"
    /\ log' = [log EXCEPT ![c] = Record(log[c], "write")]
    /\ Raise(c, "OSError")
    /\ UNCHANGED <<args, data, datahead, outFile, fpos, df, ret, fs, urlVars, findVars, wqVars>>

\* Lines 88-90, 143-145: the with block ends and the file is closed.
CloseFile(c) ==
    /\ pc[c] = "write"
    /\ fpos[c] = Len(datahead[c])
    /\ log' = [log EXCEPT ![c] = Record(log[c], "close")]
    /\ pc' = [pc EXCEPT ![c] = "read_csv"]
    /\ UNCHANGED <<args, data, datahead, outFile, fpos, df, ret, err, fs,
                   urlVars, findVars, wqVars>>

\* The index of a time-series frame (lines 92-93): the exception raised, or
\* the parsed ('datetime','20d') column.
TsIndex(frame) ==
    IF ColumnIndex(frame, DatetimeLabel, Fmt20d) = 0
        THEN [raised |-> "KeyError", index |-> <<>>]
    ELSE IF ~Parses(Column(frame, DatetimeLabel, Fmt20d))
        THEN [raised |-> "ValueError", index |-> <<>>]
    ELSE [raised |-> None,
          index |-> DatetimeColumn(Column(frame, DatetimeLabel, Fmt20d))]

\* The index of a water-quality frame (lines 148-150).
WqIndex(frame) ==
    IF ColumnIndex(frame, SampleTm, Fmt5d) = 0 \/ ColumnIndex(frame, SampleDt, Fmt10d) = 0
        THEN [raised |-> "KeyError", index |-> <<>>]
    ELSE LET tm == FillMissingTime(Column(frame, SampleTm, Fmt5d))
             text == DatetimeText(Column(frame, SampleDt, Fmt10d), tm)
         IN  IF ~Parses(text) THEN [raised |-> "ValueError", index |-> <<>>]
             ELSE [raised |-> None, index |-> DatetimeColumn(text)]

\* A parse of the lines the first request was answered with: no second request.
ReadCsvUrlFromStream(c, R) ==
    /\ pc[c] = "read_csv"
    /\ LET frame == ReadCsv(log[c].response)
       IN  /\ log' = [log EXCEPT ![c] = Record(log[c], "read_csv")]
           /\ IF frame.ok
                 THEN /\ df' = [df EXCEPT ![c] = [columns |-> frame.columns,
                                                  rows |-> frame.rows, index |-> <<>>]]
                      /\ pc' = [pc EXCEPT ![c] = "index"]
                      /\ err' = err
                 ELSE /\ Raise(c, "ParserError")
                      /\ df' = df
    /\ UNCHANGED <<args, data, datahead, outFile, fpos, ret, fs, urlVars, findVars, wqVars>>

\* Lines 91, 146: pd.read_csv(Url, ...) requests the URL again and parses the
\* response r it is answered with.
ReadCsvUrl(c, R) ==
    /\ pc[c] = "read_csv"
    /\ \E r \in R[args[c].kind] :
        LET frame == ReadCsv(r)
        IN  /\ log' = [log EXCEPT ![c] =
                          [Requested(log[c], BuiltUrl(args[c]), "read_csv")
                              EXCEPT !.response = r]]
            /\ IF frame.ok
                  THEN /\ df' = [df EXCEPT ![c] = [columns |-> frame.columns,
                                                   rows |-> frame.rows, index |-> <<>>]]
                       /\ pc' = [pc EXCEPT ![c] = "index"]
                       /\ err' = err
                  ELSE /\ Raise(c, "ParserError")
                       /\ df' = df
    /\ UNCHANGED <<args, data, datahead, outFile, fpos, ret, fs, urlVars, findVars, wqVars>>

\* Lines 91, 146: the request of pd.read_csv raises.
ReadCsvFails(c) ==
    /\ pc[c] = "read_csv"
    /\ log' = [log EXCEPT ![c] = Requested(log[c], BuiltUrl(args[c]), "read_csv")]
    /\ Raise(c, "URLError")
    /\ UNCHANGED <<args, data, datahead, outFile, fpos, df, ret, fs, urlVars, findVars, wqVars>>

\* Lines 92-94, 148-151: the index is built and (datahead, df) returned, or
\* the missing column or the unparsable cell raises.
BuildIndex(c) ==
    /\ pc[c] = "index"
    /\ LET built == IF args[c].kind = "ts" THEN TsIndex(df[c]) ELSE WqIndex(df[c])
       IN  /\ log' = [log EXCEPT ![c] = Record(log[c], "index")]
           /\ IF built.raised = None
                 THEN /\ df' = [df EXCEPT ![c].index = built.index]
                      /\ ret' = [ret EXCEPT ![c] =
                                    [returned |-> TRUE, datahead |-> datahead[c],
                                     df |-> [df[c] EXCEPT !.index = built.index]]]
                      /\ pc' = [pc EXCEPT ![c] = "returned"]
                      /\ err' = err
                 ELSE /\ Raise(c, built.raised)
                      /\ UNCHANGED <<df, ret>>
    /\ UNCHANGED <<args, data, datahead, outFile, fpos, fs, urlVars, findVars, wqVars>>

\* The steps of call c, its arguments drawn from A and the responses from R.
Fetch(c, A, R) ==
    \/ Call(c, A)
    \/ UrlOpen(c, R)
    \/ UrlOpenFails(c)
    \/ NextLine(c)
    \/ ReadFails(c)
    \/ OpenFile(c)
    \/ OpenFileFails(c)
    \/ WriteLine(c)
    \/ WriteFails(c)
    \/ CloseFile(c)
    \/ ReadCsvUrl(c, R)
    \/ ReadCsvFails(c)
    \/ BuildIndex(c)

---------------------------------------------------------------------------
(* Specifications                                                          *)

\* One fetch call, any response of the service.
Init == UrlIdle /\ FindIdle /\ WqIdle /\ FetchInit
Next == Fetch(1, SingleArgs, AnyResponse)
Spec == Init /\ [][Next]_vars

\* Two fetch calls that run interleaved.
NextPar == \E c \in Calls : Fetch(c, ParallelArgs, FewResponses)
SpecPar == Init /\ [][NextPar]_vars

\* The URL builders on drawn arguments.
InitUrl == UrlInit /\ FindIdle /\ WqIdle /\ FetchIdle /\ fs = [p \in Paths |-> Absent]
NextUrl == CallGenUSGSUrl \/ CallGenUSGS_WQData_Url
SpecUrl == InitUrl /\ [][NextUrl]_vars

\* findUSGSCode on drawn Record Sets and tags.
InitFind == UrlIdle /\ FindInit /\ WqIdle /\ FetchIdle /\ fs = [p \in Paths |-> Absent]
NextFind == CallFindUSGSCode
SpecFind == InitFind /\ [][NextFind]_vars

\* The water-quality index construction on drawn bodies.
InitWQ == UrlIdle /\ FindIdle /\ WqInit /\ FetchIdle /\ fs = [p \in Paths |-> Absent]
NextWQ == WqReadCsv \/ WqFillTime \/ WqToDatetime \/ WqSetIndex
SpecWQ == InitWQ /\ [][NextWQ]_vars

---------------------------------------------------------------------------
(* Properties                                                              *)

\* How often step occurs in the events of a log.
Times(l, step) == Cardinality({i \in 1..Len(l.events) : l.events[i] = step})

Did(l, step) == \E i \in 1..Len(l.events) : l.events[i] = step

\* The positions of the lines of response r that contain the marker.
MarkedPositions(r) == {i \in 1..Len(r) : \E k \in 1..Len(r[i]) : r[i][k] = Marker}

\* h is exactly the marked lines of r: as many, and the line at the n-th
\* marked position is the n-th line of h.
IsMarkedSubsequence(h, r) ==
    /\ Len(h) = Cardinality(MarkedPositions(r))
    /\ \A i \in MarkedPositions(r) :
           h[Cardinality({j \in MarkedPositions(r) : j <= i})] = r[i]

\* C1 (state part): once a call has read its response and closed the header
\* file, the header list and the file are both exactly the marked lines of
\* the response, in order; the list returned is that list.
C1_HeaderState ==
    \A c \in Calls :
        /\ pc[c] = "read_csv" =>
               /\ IsMarkedSubsequence(datahead[c], log[c].response)
               /\ fs[outFile[c]] = [exists |-> TRUE, content |-> datahead[c]]
        /\ ret[c].returned =>
               /\ ret[c].datahead = datahead[c]
               /\ fs[outFile[c]] = [exists |-> TRUE, content |-> datahead[c]]

\* C1 (step part): after the file is closed the call changes neither its
\* header list nor the file.
C1_HeaderStable ==
    \A c \in Calls :
        Did(log[c], "close") =>
            /\ datahead'[c] = datahead[c]
            /\ fs'[outFile[c]] = fs[outFile[c]]

\* C1: for every response read without error, the header file and the header
\* list returned are exactly the subsequence of the response's lines that
\* contain '#': each verbatim, once, in order, and no other line.
C1_HeaderIsMarkedSubsequence == []C1_HeaderState /\ [][C1_HeaderStable]_vars

\* C1 witness: a response whose marked lines stand around an unmarked one has
\* been read and written, the second marked line not beginning with '#'.
C1_Witness ==
    /\ pc[1] = "read_csv"
    /\ Len(log[1].response) = 3
    /\ MarkedPositions(log[1].response) = {1, 3}
    /\ Head(log[1].response[3]) # Marker
    /\ fs[outFile[1]].content = <<log[1].response[1], log[1].response[3]>>

\* C2 as stated: a call that runs to completion made exactly one request,
\* one header-file write and one parse, and its header lines and its Record
\* Set come from the same response.
C2_OneRoundTrip ==
    \A c \in Calls :
        pc[c] = "returned" =>
            /\ Len(log[c].requests) = 1
            /\ Times(log[c], "open") = 1
            /\ Times(log[c], "close") = 1
            /\ Times(log[c], "read_csv") = 1
            /\ IsMarkedSubsequence(ret[c].datahead, log[c].response)

\* C2 amended: a call that runs to completion made exactly two requests, both
\* to the built URL (urlopen, then pd.read_csv), opened and closed the header
\* file once and parsed once; the Record Set is the parse of the second
\* response.
C2_TwoRequests ==
    \A c \in Calls :
        pc[c] = "returned" =>
            /\ log[c].requests = <<BuiltUrl(args[c]), BuiltUrl(args[c])>>
            /\ Times(log[c], "urlopen") = 1
            /\ Times(log[c], "open") = 1
            /\ Times(log[c], "close") = 1
            /\ Times(log[c], "read_csv") = 1
            /\ ret[c].df.rows = ReadCsv(log[c].response).rows
            /\ ret[c].df.columns = ReadCsv(log[c].response).columns

\* C2 witness: a call has returned a Record Set of one row and header lines
\* that are not the marked lines of the response the Record Set was parsed
\* from.
C2_Witness ==
    /\ pc[1] = "returned"
    /\ Len(ret[1].df.rows) = 1
    /\ ret[1].datahead # <<>>
    /\ ~IsMarkedSubsequence(ret[1].datahead, log[1].response)

\* C3 as stated: when two calls with different queries have run interleaved
\* and both have returned, the header file each has left behind holds exactly
\* that call's header lines.
C3_OwnHeaderFile ==
    ((\A c \in Calls : pc[c] = "returned") /\ args[1] # args[2]) =>
        \A c \in Calls :
            fs[outFile[c]] = [exists |-> TRUE, content |-> ret[c].datahead]

\* The labels of D that contain code and do not end with '_cd'.
NonQualifierMatches(D, code) ==
    {i \in 1..Len(D.columns) :
        Contains(code, D.columns[i][1]) /\ ~EndsWith(D.columns[i][1], CdSuffix)}

\* C4 as stated: when more than one non-qualifier label contains the code,
\* the label returned contains the code and '00003' and does not end with
\* '_cd'; and when two of those labels contain '00003' a label is returned.
C4_NarrowedLabel ==
    (findPc = "returned" /\ ParamCodeOf(paramType) # Empty
        /\ Cardinality(NonQualifierMatches(Df, ParamCodeOf(paramType))) > 1) =>
        /\ findOut.returned = "label" =>
               /\ Contains(ParamCodeOf(paramType), findOut.value)
               /\ Contains(DailyMean, findOut.value)
               /\ ~EndsWith(findOut.value, CdSuffix)
        /\ Cardinality({i \in NonQualifierMatches(Df, ParamCodeOf(paramType)) :
                           Contains(DailyMean, Df.columns[i][1])}) >= 2
               => findOut.returned = "label"

\* C5 as stated: on a Record Set whose site_no column can be read the call
\* returns a label or nothing and raises no exception.
C5_NeverRaises ==
    (findPc = "returned" /\ SiteNoLookup(Df).raised = None) =>
        /\ findOut.raised = None
        /\ findOut.returned \in {"label", "None"}

\* The parameter codes of the tags, as the specification and the code's
\* message list them.
CodeOfTag(tag) ==
    CASE tag \in {"Q", "Discharge"} -> <<"0","0","0","6","0">>
      [] tag = "Stage" -> <<"0","0","0","6","5">>
      [] tag \in {"Umean", "MeanVelocity"} -> <<"7","2","2","9","4">>
      [] tag = "Turbidity" -> <<"6","3","6","8","0">>
      [] tag \in {"Tempmean", "MeanTemperature"} -> <<"0","0","0","1","0">>

\* The call on a tag of the set Known: the tag is recognized, and with exactly
\* one non-qualifier column for its code the call returns that column's label;
\* a tag outside Known gets the invalid-tag diagnostic and nothing.
LocatorContract(Known) ==
    findPc = "returned" =>
        IF paramType \in Known
            THEN /\ findOut.printed # InvalidTagMessage
                 /\ \A i \in 1..Len(Df.columns) :
                        NonQualifierMatches(Df, CodeOfTag(paramType)) = {i} =>
                            findOut = FindOutcome("", Empty, None, "label", Df.columns[i][1])
            ELSE findOut = FindOutcome(InvalidTagMessage, Empty, None, "None", Empty)

\* C6 as stated: the tags are Discharge, Stage, MeanVelocity, Turbidity and
\* MeanTemperature.
C6_DocTags == LocatorContract(DocTags)

\* C6 amended: the tags are Q, Stage, Umean, Turbidity and Tempmean (Q is
\* '00060', Stage '00065', Umean '72294', Turbidity '63680', Tempmean '00010');
\* each is recognized and, with exactly one non-qualifier column whose label
\* contains its code, the call returns that label; every other tag, Discharge,
\* MeanVelocity and MeanTemperature among them, gets the invalid-tag
\* diagnostic and an empty result.
C6_CodeTags == LocatorContract(CodeTags)

\* C6 witness: Stage was looked up in a Record Set with one stage column
\* beside a discharge column, and that column's label came back.
C6_Witness ==
    /\ findPc = "returned"
    /\ paramType = "Stage"
    /\ Cardinality(NonQualifierMatches(Df, CodeOfTag("Stage"))) = 1
    /\ Cardinality(NonQualifierMatches(Df, CodeOfTag("Q"))) = 1
    /\ findOut.returned = "label"
    /\ Contains(CodeOfTag("Stage"), findOut.value)


\* The concatenation of the strings of a list.
RECURSIVE Joined(_)
Joined(parts) == IF parts = <<>> THEN <<>> ELSE Head(parts) \o Joined(Tail(parts))

\* Whether the string has none of '&', '?', '='.
Plain(text) == \A i \in 1..Len(text) : text[i] \notin {"&", "?", "="}

\* Each key of the list occurs exactly once in url, and they occur in the
\* order of the list.
KeysOnceInOrder(keys, url) ==
    /\ \A k \in 1..Len(keys) : Cardinality(Occurrences(keys[k], url)) = 1
    /\ \A k \in 1..(Len(keys) - 1) :
           \A i \in Occurrences(keys[k], url) :
               \A j \in Occurrences(keys[k + 1], url) : i < j

TsKeys ==
    << <<"f","o","r","m","a","t","=">>, <<"s","i","t","e","s","=">>,
       <<"s","t","a","r","t","D","T","=">>, <<"e","n","d","D","T","=">>,
       <<"s","i","t","e","S","t","a","t","u","s","=">> >>

WqKeys ==
    << <<"s","i","t","e","_","n","o","=">>, <<"a","g","e","n","c","y","_","c","d","=">>,
       <<"p","a","r","a","m","_","g","r","o","u","p","=">>, <<"f","o","r","m","a","t","=">> >>

\* C7: the URL a builder returns is the base, the data type and the fixed
\* query text around the arguments; with arguments free of '&', '?' and '='
\* each query key occurs exactly once and in the fixed order.
C7_UrlFormat ==
    urlPc = "returned" =>
        IF urlArgs.kind = "ts"
            THEN /\ Url = Joined(<< TsBase, urlArgs.dtype,
                                    <<"/","?","f","o","r","m","a","t","=","r","d","b",
                                      "&","s","i","t","e","s","=">>,
                                    urlArgs.siteNo,
                                    <<"&","s","t","a","r","t","D","T","=">>,
                                    urlArgs.startDT,
                                    <<"&","e","n","d","D","T","=">>,
                                    urlArgs.endDT,
                                    <<"&","s","i","t","e","S","t","a","t","u","s","=",
                                      "a","l","l">> >>)
                 /\ (Plain(urlArgs.siteNo) /\ Plain(urlArgs.dtype)
                        /\ Plain(urlArgs.startDT) /\ Plain(urlArgs.endDT))
                        => KeysOnceInOrder(TsKeys, Url)
            ELSE /\ Url = Joined(<< WqBase, urlArgs.dtype,
                                    <<"/","?","s","i","t","e","_","n","o","=">>,
                                    urlArgs.siteNo,
                                    <<"&","a","g","e","n","c","y","_","c","d","=",
                                      "U","S","G","S","&","p","a","r","a","m","_",
                                      "g","r","o","u","p","=">>,
                                    urlArgs.paramgroup,
                                    <<"&","f","o","r","m","a","t","=","r","d","b">> >>)
                 /\ (Plain(urlArgs.siteNo) /\ Plain(urlArgs.dtype)
                        /\ Plain(urlArgs.paramgroup))
                        => KeysOnceInOrder(WqKeys, Url)

\* C7 witness: the time-series builder has returned the URL of arguments
\* that are not empty and free of '&', '?' and '='.
C7_Witness ==
    /\ urlPc = "returned"
    /\ urlArgs.kind = "ts"
    /\ urlArgs.siteNo # <<>> /\ Plain(urlArgs.siteNo)
    /\ urlArgs.startDT # <<>> /\ Plain(urlArgs.startDT)
    /\ urlArgs.endDT # <<>> /\ Plain(urlArgs.endDT)
    /\ KeysOnceInOrder(TsKeys, Url)

\* The number a slice of decimal digits denotes.
Number(text, from, to) == ParseInt(SubSeq(text, from, to))

\* The sample_dt and sample_tm fields of data row i of the body.
BodyDate(i) == Split(wqBody[i + 2], Tab)[1]
BodyTime(i) == Split(wqBody[i + 2], Tab)[2]

\* The timestamp row i is to get: its date at its HH:MM and zero seconds, at
\* 12:00:00 when its time is blank; a row without a date has none (NaT).
ExpectedStamp(i) ==
    IF BodyDate(i) = <<>> THEN NaT
    ELSE Timestamp(Number(BodyDate(i), 1, 4), Number(BodyDate(i), 6, 7),
                   Number(BodyDate(i), 9, 10),
                   IF BodyTime(i) = <<>> THEN 12 ELSE Number(BodyTime(i), 1, 2),
                   IF BodyTime(i) = <<>> THEN 0 ELSE Number(BodyTime(i), 4, 5),
                   0)

\* C8: the index has one entry per data row, in the rows' order; a row with a
\* blank time gets 12:00:00 on its date, a row with a time HH:MM gets
\* HH:MM:00 on its date; the defaulting leaves an explicit time as it is.
C8_TimeDefault ==
    /\ wqPc \in {"filled", "stamped", "returned"} =>
           /\ Len(wqDf.sample_tm) = Len(wqBody) - 2
           /\ \A i \in 1..(Len(wqBody) - 2) :
                  BodyTime(i) # <<>> => wqDf.sample_tm[i] = Str(BodyTime(i))
    /\ wqPc = "returned" =>
           /\ Len(wqDf.index) = Len(wqBody) - 2
           /\ \A i \in 1..(Len(wqBody) - 2) : wqDf.index[i] = ExpectedStamp(i)

\* C8 witness: a body whose first row has a blank time and whose second row
\* has the time 08:30 on another date has got its index.
C8_Witness ==
    /\ wqPc = "returned"
    /\ Len(wqBody) >= 4
    /\ BodyDate(1) # <<>> /\ BodyTime(1) = <<>>
    /\ BodyDate(2) # <<>> /\ BodyDate(2) # BodyDate(1)
    /\ BodyTime(2) = <<"0","8",":","3","0">>
    /\ wqDf.index[1].hour = 12 /\ wqDf.index[1].minute = 0
    /\ wqDf.index[2].hour = 8 /\ wqDf.index[2].minute = 30
    /\ wqDf.index[1].day # wqDf.index[2].day

\* C9 as stated: every line recorded as a header line begins with the marker
\* and is skipped by the parser, every other line is parsed whole: of one
\* response, the lines the parser keeps are the lines not recorded, unchanged.
C9_SameClassification ==
    \A c \in Calls :
        pc[c] = "read_csv" =>
            /\ \A k \in 1..Len(datahead[c]) : Head(datahead[c][k]) = Marker
            /\ LET Unmarked(l) == \A k \in 1..Len(l) : l[k] # Marker
               IN  ParsedLines(log[c].response) = SelectSeq(log[c].response, Unmarked)

\* The place of a step in a call.
StepRank(step) ==
    CASE step = "urlopen" -> 1 [] step = "iter" -> 2 [] step = "open" -> 3
      [] step = "write" -> 4 [] step = "close" -> 5 [] step = "read_csv" -> 6
      [] step = "index" -> 7

\* C10 (state part): the steps of a call stand in the order urlopen, stream
\* reads, file open, writes, close, parse, index, none but the per-line reads
\* and writes more than once and none without the step before it; the file is
\* opened only when the stream is at its end; a network error before the open
\* leaves the file as the call found it; an error of the file means no parse,
\* no second request and nothing returned.
C10_OrderState ==
    \A c \in Calls :
        LET e == log[c].events
        IN  /\ \A i, j \in 1..Len(e) :
                   i < j => /\ StepRank(e[i]) <= StepRank(e[j])
                            /\ e[i] = e[j] => e[i] \in {"iter", "write"}
            /\ Did(log[c], "iter") \/ Did(log[c], "open") => Did(log[c], "urlopen")
            /\ Did(log[c], "open") => data[c] = <<>>
            /\ Did(log[c], "write") \/ Did(log[c], "close") => Did(log[c], "open")
            /\ Did(log[c], "read_csv") => Did(log[c], "close")
            /\ Did(log[c], "index") => Did(log[c], "read_csv")
            /\ Len(log[c].requests) = Times(log[c], "urlopen") + Times(log[c], "read_csv")
            /\ (pc[c] \in {"urlopen", "iter"} \/ (pc[c] = "raised" /\ ~Did(log[c], "open")))
                   => fs[outFile[c]] = log[c].before
            /\ (pc[c] = "raised" /\ err[c] = "OSError") =>
                   /\ ~Did(log[c], "read_csv")
                   /\ Len(log[c].requests) = 1
            /\ ret[c].returned <=> pc[c] = "returned"
            /\ pc[c] = "returned" => Did(log[c], "index")

\* C10 (step part): a call that has raised takes no further step.
C10_NoRetry ==
    \A c \in Calls :
        pc[c] = "raised" =>
            /\ pc'[c] = "raised"
            /\ log'[c] = log[c]
            /\ ret'[c] = ret[c]
            /\ fs' = fs

\* C10: the steps of a fetch occur in order and a failed step ends the call:
\* a network error leaves the header file neither created nor truncated, a
\* file error means no parse and no Record Set, and nothing is retried.
C10_StepsInOrder == []C10_OrderState /\ [][C10_NoRetry]_vars

\* C10 witness: reading the stream failed after a marked line was read, and
\* the header file an earlier run left is still what it was.
C10_Witness ==
    /\ pc[1] = "raised"
    /\ err[1] = "URLError"
    /\ datahead[1] # <<>>
    /\ log[1].before = OldFile
    /\ fs[outFile[1]] = OldFile

====
